---- MODULE Spec2Model ----
(***************************************************************************)
(* Laama Chat: the chat store (chats_db.py), the RAG app                   *)
(* (laama_chat_rag.py) and the plain app (laama_chat.py) as state          *)
(* machines.  One action is one call of a store function (SpecStore) or    *)
(* one complete Streamlit script run of main(), callbacks included (Spec,  *)
(* SpecPlain).                                                             *)
(***************************************************************************)
EXTENDS Integers, Sequences, FiniteSets, TLC

VARIABLES
    db,             \* chats.db: [tables, chats, seq, settings]
    ret,            \* the last step: a direct call of a store function and its
                    \* outcome, or the script run main() of session ret.value
    saved,          \* history: id of a stored chat -> the arguments it was saved with
    issued,         \* history: the ids given to saved chats, in the order of the saves
    session_state,  \* st.session_state and widget state of each session
    index,          \* documents held by the process's VectorStoreIndex object
    cache_resource, \* functions whose @st.cache_resource value is cached
    startup,        \* history: how create_database ended at application start
    trace,          \* history: what the last script run of each session did
    conn            \* the save_chat call each session's thread is inside of

vars == <<db, ret, saved, issued, session_state, index, cache_resource, startup, trace,
          conn>>

(***************************************************************************)
(* Bounds                                                                  *)
(***************************************************************************)
\* largest number of rows ever inserted into the chats table
MaxId == 2
\* longest active message sequence a session's turn may produce
MaxMsgs == 4
\* largest number of documents inserted into the VectorStoreIndex
MaxDocs == 2
\* largest number of chats saved where every UI event is explored
MaxSaves == 1
\* longest active message sequence where every UI event is explored
MaxEventMsgs == 2

(***************************************************************************)
(* Values                                                                  *)
(***************************************************************************)
None == "None"

DEFAULT_MODEL == "llama3.1"

\* display name -> internal model name
MODEL_MAPPING == [n \in {"Llama 3.1", "Gemma 2"} |->
                    IF n = "Llama 3.1" THEN "llama3.1" ELSE "gemma2"]

DisplayNames == DOMAIN MODEL_MAPPING

Models == {MODEL_MAPPING[n] : n \in DisplayNames}

Roles == {"user", "assistant", "system"}

ChatNames == {"Trip Planning", "Notes"}

SORRY == "I'm sorry, I couldn't process your request."

Message(role, content) == [role |-> role, content |-> content]

(***************************************************************************)
(* json.dumps / json.loads of a list of {"role", "content"} dicts, on      *)
(* token sequences.                                                        *)
(***************************************************************************)
RECURSIVE json_dumps_items(_)
json_dumps_items(messages) ==
    IF messages = <<>> THEN <<>>
    ELSE <<"{", "role", Head(messages).role,
           "content", Head(messages).content, "}">>
         \o json_dumps_items(Tail(messages))

\* a serializer that loses the last message
json_dumps_truncating(messages) ==
    IF messages = <<>> THEN <<"[", "]">>
    ELSE <<"[">> \o json_dumps_items(SubSeq(messages, 1, Len(messages) - 1))
         \o <<"]">>

json_dumps(messages) ==
    <<"[">> \o json_dumps_items(messages) \o <<"]">>

RECURSIVE json_loads_items(_)
json_loads_items(toks) ==
    IF Len(toks) = 1 /\ toks[1] = "]"
    THEN [ok |-> TRUE, val |-> <<>>]
    ELSE IF Len(toks) >= 7 /\ toks[1] = "{" /\ toks[2] = "role"
            /\ toks[4] = "content" /\ toks[6] = "}"
    THEN LET rest == json_loads_items(SubSeq(toks, 7, Len(toks)))
         IN  IF rest.ok
             THEN [ok |-> TRUE,
                   val |-> <<Message(toks[3], toks[5])>> \o rest.val]
             ELSE rest
    ELSE [ok |-> FALSE, val |-> <<>>]

\* a parser that gives the empty list for text it cannot parse
json_loads_lenient(toks) ==
    IF Len(toks) >= 2 /\ toks[1] = "["
    THEN [ok |-> TRUE, val |-> json_loads_items(Tail(toks)).val]
    ELSE [ok |-> TRUE, val |-> <<>>]

\* ok = FALSE stands for json.JSONDecodeError
json_loads(toks) ==
    IF Len(toks) >= 2 /\ toks[1] = "["
    THEN json_loads_items(Tail(toks))
    ELSE [ok |-> FALSE, val |-> <<>>]

(***************************************************************************)
(* chats_db.py.  Every function takes the store d and the set fs of fault  *)
(* points at which sqlite3 raises sqlite3.Error during this call, and      *)
(* returns [db, raised, value].                                            *)
(***************************************************************************)
EmptyDb == [tables |-> {}, chats |-> <<>>, seq |-> 0, settings |-> <<>>]

HasDefaultRow(d) == "default_model" \in DOMAIN d.settings

\* INSERT OR REPLACE: the seed overwrites a stored default
SeedDefaultReplacing(d) ==
    [d EXCEPT !.settings = ("default_model" :> "llama3.1")]

\* INSERT OR IGNORE INTO settings VALUES ('default_model', 'llama3.1')
SeedDefault(d) ==
    IF HasDefaultRow(d) THEN d
    ELSE [d EXCEPT !.settings = ("default_model" :> "llama3.1")]

\* CREATE TABLE runs outside a transaction: a table created before a later
\* statement fails stays created.
create_database(d, fs) ==
    IF "create_chats" \in fs
    THEN [db |-> d, raised |-> TRUE, value |-> None]
    ELSE LET d1 == [d EXCEPT !.tables = @ \cup {"chats"}]
         IN  IF "create_settings" \in fs
             THEN [db |-> d1, raised |-> TRUE, value |-> None]
             ELSE LET d2 == [d1 EXCEPT !.tables = @ \cup {"settings"}]
                  IN  IF "seed_default" \in fs
                      THEN [db |-> d2, raised |-> TRUE, value |-> None]
                      ELSE [db |-> SeedDefault(d2), raised |-> FALSE,
                            value |-> None]

\* a save with "replace" semantics: rows with the same name are overwritten
save_chat_replacing(d, chat_name, messages, model, fs) ==
    IF "save_chat" \in fs \/ "chats" \notin d.tables
    THEN [db |-> d, raised |-> TRUE, value |-> None]
    ELSE LET id == d.seq + 1
             row == [chat_name |-> chat_name,
                     messages |-> json_dumps(messages),
                     model |-> model]
             kept == {i \in DOMAIN d.chats : d.chats[i].chat_name # chat_name}
         IN  [db |-> [d EXCEPT !.chats = (id :> row)
                                   @@ [i \in kept |-> d.chats[i]],
                               !.seq = id],
              raised |-> FALSE, value |-> None]

\* id INTEGER PRIMARY KEY without AUTOINCREMENT: one more than the largest
\* id in the table
save_chat_reusing(d, chat_name, messages, model, fs) ==
    IF "save_chat" \in fs \/ "chats" \notin d.tables
    THEN [db |-> d, raised |-> TRUE, value |-> None]
    ELSE LET id == IF DOMAIN d.chats = {} THEN 1
                   ELSE 1 + CHOOSE i \in DOMAIN d.chats :
                                \A j \in DOMAIN d.chats : j <= i
             row == [chat_name |-> chat_name,
                     messages |-> json_dumps(messages),
                     model |-> model]
         IN  [db |-> [d EXCEPT !.chats = (id :> row) @@ @, !.seq = id],
              raised |-> FALSE, value |-> None]

\* id INTEGER PRIMARY KEY AUTOINCREMENT: one more than the largest id ever used
save_chat(d, chat_name, messages, model, fs) ==
    IF "save_chat" \in fs \/ "chats" \notin d.tables
    THEN [db |-> d, raised |-> TRUE, value |-> None]
    ELSE LET id == d.seq + 1
             row == [chat_name |-> chat_name,
                     messages |-> json_dumps(messages),
                     model |-> model]
         IN  [db |-> [d EXCEPT !.chats = (id :> row) @@ @, !.seq = id],
              raised |-> FALSE, value |-> None]

RECURSIVE RowsFrom(_, _)
\* the rows (id, chat_name, model) with id >= i, in id order
RowsFrom(d, i) ==
    IF i > d.seq THEN <<>>
    ELSE (IF i \in DOMAIN d.chats
          THEN <<<<i, d.chats[i].chat_name, d.chats[i].model>>>>
          ELSE <<>>)
         \o RowsFrom(d, i + 1)

\* a listing that returns the newest row only
load_chats_newest(d, fs) ==
    IF "load_chats" \in fs \/ "chats" \notin d.tables
    THEN [db |-> d, raised |-> TRUE, value |-> <<>>]
    ELSE [db |-> d, raised |-> FALSE, value |-> RowsFrom(d, d.seq)]

load_chats(d, fs) ==
    IF "load_chats" \in fs \/ "chats" \notin d.tables
    THEN [db |-> d, raised |-> TRUE, value |-> <<>>]
    ELSE [db |-> d, raised |-> FALSE, value |-> RowsFrom(d, 1)]

\* a lookup that raises when no row has the id
load_chat_messages_strict(d, chat_id, fs) ==
    IF "load_chat_messages" \in fs \/ "chats" \notin d.tables
       \/ chat_id \notin DOMAIN d.chats
    THEN [db |-> d, raised |-> TRUE, kind |-> "sqlite3",
          value |-> <<FALSE, None, None>>]
    ELSE LET parsed == json_loads(d.chats[chat_id].messages)
         IN  [db |-> d, raised |-> ~parsed.ok,
              kind |-> IF parsed.ok THEN None ELSE "json",
              value |-> IF parsed.ok
                        THEN <<TRUE, parsed.val, d.chats[chat_id].model>>
                        ELSE <<FALSE, None, None>>]

\* raised with kind "json" is the JSONDecodeError of json.loads, which the
\* function's except sqlite3.Error clause does not catch either
load_chat_messages(d, chat_id, fs) ==
    IF "load_chat_messages" \in fs \/ "chats" \notin d.tables
    THEN [db |-> d, raised |-> TRUE, kind |-> "sqlite3",
          value |-> <<FALSE, None, None>>]
    ELSE IF chat_id \in DOMAIN d.chats
    THEN LET parsed == json_loads(d.chats[chat_id].messages)
         IN  IF parsed.ok
             THEN [db |-> d, raised |-> FALSE, kind |-> None,
                   value |-> <<TRUE, parsed.val, d.chats[chat_id].model>>]
             ELSE [db |-> d, raised |-> TRUE, kind |-> "json",
                   value |-> <<FALSE, None, None>>]
    ELSE [db |-> d, raised |-> FALSE, kind |-> None,
          value |-> <<FALSE, None, None>>]

\* a delete that raises when no row has the id
delete_chat_strict(d, chat_id, fs) ==
    IF "delete_chat" \in fs \/ "chats" \notin d.tables
       \/ chat_id \notin DOMAIN d.chats
    THEN [db |-> d, raised |-> TRUE, value |-> None]
    ELSE [db |-> [d EXCEPT !.chats =
                     [i \in DOMAIN d.chats \ {chat_id} |-> d.chats[i]]],
          raised |-> FALSE, value |-> None]

delete_chat(d, chat_id, fs) ==
    IF "delete_chat" \in fs \/ "chats" \notin d.tables
    THEN [db |-> d, raised |-> TRUE, value |-> None]
    ELSE [db |-> [d EXCEPT !.chats =
                     [i \in DOMAIN d.chats \ {chat_id} |-> d.chats[i]]],
          raised |-> FALSE, value |-> None]

\* a reader that lets the sqlite3.Error through
get_default_model_raising(d, fs) ==
    IF "get_default_model" \in fs \/ "settings" \notin d.tables
    THEN [db |-> d, raised |-> TRUE, logged |-> TRUE, value |-> None]
    ELSE [db |-> d, raised |-> FALSE, logged |-> FALSE,
          value |-> IF HasDefaultRow(d) THEN d.settings["default_model"]
                    ELSE DEFAULT_MODEL]

get_default_model(d, fs) ==
    IF "get_default_model" \in fs \/ "settings" \notin d.tables
    THEN [db |-> d, raised |-> FALSE, logged |-> TRUE,
          value |-> DEFAULT_MODEL]
    ELSE [db |-> d, raised |-> FALSE, logged |-> FALSE,
          value |-> IF HasDefaultRow(d) THEN d.settings["default_model"]
                    ELSE DEFAULT_MODEL]

\* a writer that reports success without storing the value
set_default_model_lost(d, model, fs) ==
    IF "set_default_model" \in fs \/ "settings" \notin d.tables
    THEN [db |-> d, raised |-> TRUE, value |-> None]
    ELSE [db |-> d, raised |-> FALSE, value |-> None]

\* UPDATE settings SET value = ? WHERE key = "default_model"
set_default_model(d, model, fs) ==
    IF "set_default_model" \in fs \/ "settings" \notin d.tables
    THEN [db |-> d, raised |-> TRUE, value |-> None]
    ELSE [db |-> IF HasDefaultRow(d)
                 THEN [d EXCEPT !.settings["default_model"] = model]
                 ELSE d,
          raised |-> FALSE, value |-> None]

(***************************************************************************)
(* Sessions, uploaded files, events                                        *)
(***************************************************************************)
Sessions == {1, 2}

\* uploads: two documents with text; one that gives no text (a PDF or DOCX
\* without text, or one whose helper fails and returns ""); one whose
\* reading or decoding raises inside extract_text itself
Files == {"D1", "D2", "Blank", "Unreadable"}

FileText(file) ==
    CASE file = "D1" -> "text of D1"
      [] file = "D2" -> "text of D2"
      [] OTHER -> ""

PROMPT == "Plan a trip"

CHAT_REPLY == "Sure, where to?"

INDEX_ANSWER == "answer from the index"

Event(kind, arg) == [kind |-> kind, arg |-> arg]

\* every sqlite3 / backend / library call of a script run that can raise
FaultPoints ==
    {"create_chats", "create_settings", "seed_default", "embed",
     "load_chats", "get_default_model", "set_default_model", "save_chat",
     "load_chat_messages", "delete_chat", "insert", "chat", "query"}

NewSession ==
    [keys |-> {}, messages |-> <<>>, saved_chats |-> <<>>,
     use_rag |-> FALSE, uploaded_file |-> None,
     selectbox |-> [index |-> None, value |-> None],
     reach |-> 0]

NoTrace ==
    [event |-> None, arg |-> None, status |-> None, default_model |-> None,
     selected_model |-> None, changed_to |-> None, loaded |-> None,
     backend |-> None, backend_failed |-> FALSE, sent_model |-> None,
     sent |-> None, notes |-> {}]

\* how far a script run rendered: 0 nothing, 1 the model selectbox,
\* 2 the sidebar and the file uploader, 3 everything (the chat input too)
ReachSelectbox == 1
ReachUploader == 2
ReachChatInput == 3

Raise(r) == [r EXCEPT !.status = "exception"]

Note(r, n) == [r EXCEPT !.tr.notes = @ \cup {n}]

Running(r) == r.status = "running"

SavedIds(ss) == {ss.saved_chats[i][1] : i \in DOMAIN ss.saved_chats}

\* next((name for name, value in MODEL_MAPPING.items() if value == m), "Llama 3.1")
DisplayNameOf(m) ==
    IF \E n \in DisplayNames : MODEL_MAPPING[n] = m
    THEN CHOOSE n \in DisplayNames : MODEL_MAPPING[n] = m
    ELSE "Llama 3.1"

(***************************************************************************)
(* laama_chat_rag.py                                                       *)
(***************************************************************************)
\* @st.cache_resource: the first call that returns builds VectorStoreIndex([]),
\* every later call in the process returns that same object
initialize_llamaindex(r, fs) ==
    IF "initialize_llamaindex" \in r.cache THEN r
    ELSE IF "embed" \in fs THEN [r EXCEPT !.status = "stopped"]
    ELSE [r EXCEPT !.index = <<>>,
                   !.cache = @ \cup {"initialize_llamaindex"}]

clear_index(r, fs) ==
    LET r1 == initialize_llamaindex(r, fs)
    IN  IF ~Running(r1) THEN r1
        ELSE [r1 EXCEPT !.ss.keys = @ \cup {"index", "use_rag"},
                        !.ss.use_rag = FALSE]

on_file_change(r, fs) ==
    IF "uploaded_file" \in r.ss.keys
    THEN IF r.ss.uploaded_file = None
         THEN Note(clear_index(r, fs), "toast_file_removed")
         ELSE r
    ELSE r

get_ai_response(messages, model, fs) ==
    IF "chat" \in fs THEN SORRY ELSE CHAT_REPLY

\* an extraction that gives the file's name when the file has no text
extract_text_named(file) ==
    IF file = "Unreadable" THEN [tuple |-> FALSE, text |-> ""]
    ELSE [tuple |-> TRUE,
          text |-> IF FileText(file) = "" THEN file ELSE FileText(file)]

\* the tuple (text, file_type), or the bare "" of the except branch
extract_text(file) ==
    IF file = "Unreadable" THEN [tuple |-> FALSE, text |-> ""]
    ELSE [tuple |-> TRUE, text |-> FileText(file)]

delete_chat_callback(r, chat_id, fs) ==
    LET del == delete_chat(r.db, chat_id, fs)
    IN  IF del.raised THEN Note(r, "error_deleting")
        ELSE LET lst == load_chats(del.db, fs)
                 r1 == [r EXCEPT !.db = del.db,
                                 !.saved = [i \in DOMAIN @ \ {chat_id}
                                               |-> @[i]]]
             IN  IF lst.raised THEN Note(r1, "error_deleting")
                 ELSE Note([r1 EXCEPT !.ss.saved_chats = lst.value],
                           "toast_deleted")

\* @st.cache_resource: create_database runs once per process, its exception
\* is logged and swallowed
initialize_database(r, fs) ==
    IF "initialize_database" \in r.cache THEN r
    ELSE LET res == create_database(r.db, fs)
         IN  [r EXCEPT !.db = res.db,
                       !.startup = IF res.raised THEN "failed"
                                   ELSE "initialized",
                       !.cache = @ \cup {"initialize_database"}]

\* the widget event of this run reaches the session before the script starts:
\* the new widget value, then the widget's callback
ApplyEvent(r, ev, fs) ==
    CASE ev.kind = "select_model" ->
            [r EXCEPT !.ss.selectbox.value = ev.arg]
      [] ev.kind = "upload" ->
            on_file_change([r EXCEPT !.ss.uploaded_file = ev.arg,
                                     !.ss.keys = @ \cup {"uploaded_file"}], fs)
      [] ev.kind = "remove_file" ->
            on_file_change([r EXCEPT !.ss.uploaded_file = None,
                                     !.ss.keys = @ \cup {"uploaded_file"}], fs)
      [] ev.kind = "delete" ->
            delete_chat_callback(r, ev.arg, fs)
      [] OTHER -> r

\* main, lines 187-193
RagInitResources(r, fs) ==
    IF ~Running(r) THEN r
    ELSE LET r1 == IF "index" \in r.ss.keys THEN r
                   ELSE LET i == initialize_llamaindex(r, fs)
                        IN  IF Running(i)
                            THEN [i EXCEPT !.ss.keys = @ \cup {"index"}]
                            ELSE i
         IN  IF ~Running(r1) THEN r1
             ELSE initialize_database(
                      [r1 EXCEPT !.ss.keys = @ \cup {"use_rag"},
                                 !.ss.use_rag =
                                     IF "use_rag" \in r1.ss.keys THEN @
                                     ELSE FALSE], fs)

\* main, lines 203-207: load_chats is not guarded here
RagInitSession(r, fs) ==
    IF ~Running(r) THEN r
    ELSE LET r1 == [r EXCEPT !.ss.keys = @ \cup {"messages"}]
         IN  IF "saved_chats" \in r1.ss.keys THEN r1
             ELSE LET lst == load_chats(r1.db, fs)
                  IN  IF lst.raised THEN Raise(r1)
                      ELSE [r1 EXCEPT !.ss.keys = @ \cup {"saved_chats"},
                                      !.ss.saved_chats = lst.value]

\* main, lines 209-226.  The selectbox has no key: it is the same widget as
\* in the last run only while its index argument is the same, otherwise it
\* is a new widget showing the default.
SelectModel(r, fs) ==
    IF ~Running(r) THEN r
    ELSE LET got == get_default_model(r.db, fs)
             default_model == got.value
             default_name == DisplayNameOf(default_model)
             shown == IF r.ss.selectbox.index = default_name
                      THEN r.ss.selectbox.value
                      ELSE default_name
             selected_model == MODEL_MAPPING[shown]
             r1 == [r EXCEPT !.ss.selectbox =
                                [index |-> default_name, value |-> shown],
                             !.ss.reach = ReachSelectbox,
                             !.default_model = default_model,
                             !.selected_model = selected_model,
                             !.tr.default_model = default_model,
                             !.tr.notes = IF got.raised THEN @ \cup {"raised_get_default_model"}
                                          ELSE IF got.logged
                                          THEN @ \cup {"log_error_get_default_model"}
                                          ELSE @]
         IN  IF got.raised THEN Raise(r1)
             ELSE IF selected_model # default_model
             THEN LET upd == set_default_model(r1.db, selected_model, fs)
                  IN  IF upd.raised THEN Raise(r1)
                      ELSE [r1 EXCEPT !.db = upd.db,
                                      !.tr.changed_to = selected_model]
             ELSE r1

\* main, lines 236-241
RagNewChat(r, ev, fs) ==
    IF ~Running(r) \/ ev.kind # "new_chat" THEN r
    ELSE Note(clear_index([r EXCEPT !.ss.messages = <<>>], fs),
              "toast_new_chat")

\* a save that leaves the cached list as it is
SaveChatNoRefresh(r, ev, fs) ==
    IF ~Running(r) \/ ev.kind # "save" \/ ev.arg = "" THEN r
    ELSE LET res == save_chat(r.db, ev.arg, r.ss.messages,
                              r.selected_model, fs)
         IN  IF res.raised THEN Note(r, "error_saving")
             ELSE Note([r EXCEPT
                         !.db = res.db,
                         !.saved = (res.db.seq :>
                             [chat_name |-> ev.arg,
                              messages |-> r.ss.messages,
                              model |-> r.selected_model]) @@ @,
                         !.issued = Append(@, res.db.seq)],
                       "toast_saved")

\* main, lines 243-255 (both apps)
SaveChat(r, ev, fs) ==
    IF ~Running(r) \/ ev.kind # "save" \/ ev.arg = "" THEN r
    ELSE LET res == save_chat(r.db, ev.arg, r.ss.messages,
                              r.selected_model, fs)
         IN  IF res.raised THEN Note(r, "error_saving")
             ELSE LET r1 == Note([r EXCEPT
                                !.db = res.db,
                                !.saved = (res.db.seq :>
                                    [chat_name |-> ev.arg,
                                     messages |-> r.ss.messages,
                                     model |-> r.selected_model]) @@ @,
                                !.issued = Append(@, res.db.seq)],
                                "toast_saved")
                      lst == load_chats(r1.db, fs)
                  IN  IF lst.raised THEN Note(r1, "error_saving")
                      ELSE [r1 EXCEPT !.ss.saved_chats = lst.value]

\* a load that starts the chat over the way "New Chat" does
LoadChatClearing(r, ev, fs) ==
    IF ~Running(r) \/ ev.kind # "load" THEN r
    ELSE LET res == load_chat_messages(r.db, ev.arg, fs)
         IN  IF res.raised THEN Note(r, "error_loading")
             ELSE IF res.value[1]
             THEN Note(clear_index([r EXCEPT !.ss.messages = res.value[2],
                                             !.selected_model = res.value[3],
                                             !.tr.loaded = res.value[3]], fs),
                       "toast_loaded")
             ELSE r

\* main, lines 257-277 (both apps): selected_model is a local of this run
LoadChat(r, ev, fs) ==
    IF ~Running(r) \/ ev.kind # "load" THEN r
    ELSE LET res == load_chat_messages(r.db, ev.arg, fs)
         IN  IF res.raised THEN Note(r, "error_loading")
             ELSE IF res.value[1]
             THEN Note([r EXCEPT !.ss.messages = res.value[2],
                                 !.selected_model = res.value[3],
                                 !.tr.loaded = res.value[3]],
                       "toast_loaded")
             ELSE r

\* an uploader block without the "if not use_rag" guard
RagFileUploaderUnguarded(r, fs) ==
    IF ~Running(r) THEN r
    ELSE LET r1 == [r EXCEPT !.ss.reach = ReachUploader,
                             !.ss.keys = @ \cup {"uploaded_file"}]
         IN  IF r1.ss.uploaded_file = None THEN r1
             ELSE LET x == extract_text(r1.ss.uploaded_file)
                  IN  IF ~x.tuple THEN Raise(r1)
                      ELSE IF x.text = "" THEN Note(r1, "warning_empty")
                      ELSE IF "insert" \in fs THEN Raise(r1)
                      ELSE Note([r1 EXCEPT !.index = Append(@, x.text),
                                           !.ss.use_rag = TRUE],
                                "success_rag_enabled")

\* main, lines 279-292
RagFileUploader(r, fs) ==
    IF ~Running(r) THEN r
    ELSE LET r1 == [r EXCEPT !.ss.reach = ReachUploader,
                             !.ss.keys = @ \cup {"uploaded_file"}]
         IN  IF r1.ss.uploaded_file = None \/ r1.ss.use_rag THEN r1
             ELSE LET x == extract_text(r1.ss.uploaded_file)
                  IN  IF ~x.tuple THEN Raise(r1)
                      ELSE IF x.text = "" THEN Note(r1, "warning_empty")
                      ELSE IF "insert" \in fs THEN Raise(r1)
                      ELSE Note([r1 EXCEPT !.index = Append(@, x.text),
                                           !.ss.use_rag = TRUE],
                                "success_rag_enabled")

\* a turn that goes to the chat backend whatever use_rag is
RagTurnChatOnly(r, ev, fs) ==
    IF ~Running(r) THEN r
    ELSE LET r1 == [r EXCEPT !.ss.reach = ReachChatInput]
         IN  IF ev.kind # "prompt" THEN r1
             ELSE LET r2 == [r1 EXCEPT !.ss.messages =
                                Append(@, Message("user", ev.arg))]
                  IN  [r2 EXCEPT
                         !.tr.backend = "chat",
                         !.tr.backend_failed = "chat" \in fs,
                         !.tr.sent_model = r2.selected_model,
                         !.tr.sent = r2.ss.messages,
                         !.ss.messages =
                             Append(@, Message("assistant",
                                 get_ai_response(r2.ss.messages,
                                     r2.selected_model, fs)))]

\* main, lines 299-317: the query of the RAG branch is not guarded
RagTurn(r, ev, fs) ==
    IF ~Running(r) THEN r
    ELSE LET r1 == [r EXCEPT !.ss.reach = ReachChatInput]
         IN  IF ev.kind # "prompt" THEN r1
             ELSE LET r2 == [r1 EXCEPT !.ss.messages =
                                Append(@, Message("user", ev.arg))]
                  IN  IF r2.ss.use_rag
                      THEN LET r3 == [r2 EXCEPT !.tr.backend = "query",
                                                !.tr.sent = ev.arg]
                           IN  IF "query" \in fs
                               THEN Raise([r3 EXCEPT
                                              !.tr.backend_failed = TRUE])
                               ELSE [r3 EXCEPT !.ss.messages =
                                   Append(@, Message("assistant",
                                                     INDEX_ANSWER))]
                      ELSE [r2 EXCEPT
                              !.tr.backend = "chat",
                              !.tr.backend_failed = "chat" \in fs,
                              !.tr.sent_model = r2.selected_model,
                              !.tr.sent = r2.ss.messages,
                              !.ss.messages =
                                  Append(@, Message("assistant",
                                      get_ai_response(r2.ss.messages,
                                          r2.selected_model, fs)))]

\* the state a script run of session s starts from
RunStart(s, ev) ==
    [ss |-> [session_state[s] EXCEPT !.reach = 0],
     db |-> db, index |-> index, cache |-> cache_resource,
     startup |-> startup, saved |-> saved, issued |-> issued,
     tr |-> [NoTrace EXCEPT !.event = ev.kind, !.arg = ev.arg],
     status |-> "running",
     default_model |-> None, selected_model |-> None]

\* one script run of the RAG app: callback, then main() top to bottom.
\* Each stage's result is bound before the next stage reads it.
rag_main(s, ev, fs) ==
    {RagTurn(r7, ev, fs) :
      r7 \in {RagFileUploader(r6, fs) :
       r6 \in {LoadChat(r5, ev, fs) :
        r5 \in {SaveChat(r4, ev, fs) :
         r4 \in {RagNewChat(r3, ev, fs) :
          r3 \in {SelectModel(r2, fs) :
           r2 \in {RagInitSession(r1, fs) :
            r1 \in {RagInitResources(r0, fs) :
             r0 \in {ApplyEvent(st, ev, fs) :
              st \in {RunStart(s, ev)}}}}}}}}}}

(***************************************************************************)
(* laama_chat.py                                                           *)
(***************************************************************************)
\* extract_text(file, file_type): always a string, "" after an exception
plain_extract_text(file) == FileText(file)

\* the uploader has no key and no callback
PlainApplyEvent(r, ev, fs) ==
    CASE ev.kind = "select_model" ->
            [r EXCEPT !.ss.selectbox.value = ev.arg]
      [] ev.kind = "upload" -> [r EXCEPT !.ss.uploaded_file = ev.arg]
      [] ev.kind = "remove_file" -> [r EXCEPT !.ss.uploaded_file = None]
      [] ev.kind = "delete" -> delete_chat_callback(r, ev.arg, fs)
      [] OTHER -> r

\* main, lines 155-174: here load_chats is guarded
PlainInitSession(r, fs) ==
    LET r1 == initialize_database(r, fs)
        r2 == [r1 EXCEPT !.ss.keys = @ \cup {"messages", "saved_chats"}]
    IN  IF "saved_chats" \in r1.ss.keys THEN r2
        ELSE LET lst == load_chats(r1.db, fs)
             IN  IF lst.raised
                 THEN Note([r2 EXCEPT !.ss.saved_chats = <<>>],
                           "error_loading_chats")
                 ELSE [r2 EXCEPT !.ss.saved_chats = lst.value]

\* main, lines 203-207
PlainNewChat(r, ev) ==
    IF ~Running(r) \/ ev.kind # "new_chat" THEN r
    ELSE Note([r EXCEPT !.ss.messages = <<>>], "toast_new_chat")

\* main, lines 248-257: runs in every script run while a file is attached
PlainFileUploader(r) ==
    IF ~Running(r) THEN r
    ELSE LET r1 == [r EXCEPT !.ss.reach = ReachUploader]
         IN  IF r1.ss.uploaded_file = None THEN r1
             ELSE LET file_content == plain_extract_text(r1.ss.uploaded_file)
                  IN  IF file_content # ""
                      THEN Note([r1 EXCEPT !.ss.messages =
                                    Append(@, Message("system", file_content))],
                                "success_added_to_context")
                      ELSE Note(r1, "warning_empty")

\* main, lines 264-273
PlainTurn(r, ev, fs) ==
    IF ~Running(r) THEN r
    ELSE LET r1 == [r EXCEPT !.ss.reach = ReachChatInput]
         IN  IF ev.kind # "prompt" THEN r1
             ELSE LET r2 == [r1 EXCEPT !.ss.messages =
                                Append(@, Message("user", ev.arg))]
                  IN  [r2 EXCEPT
                         !.tr.backend = "chat",
                         !.tr.backend_failed = "chat" \in fs,
                         !.tr.sent_model = r2.selected_model,
                         !.tr.sent = r2.ss.messages,
                         !.ss.messages =
                             Append(@, Message("assistant",
                                 get_ai_response(r2.ss.messages,
                                     r2.selected_model, fs)))]

\* one script run of the plain app
plain_main(s, ev, fs) ==
    {PlainTurn(r6, ev, fs) :
      r6 \in {PlainFileUploader(r5) :
       r5 \in {LoadChat(r4, ev, fs) :
        r4 \in {SaveChat(r3, ev, fs) :
         r3 \in {PlainNewChat(r2, ev) :
          r2 \in {SelectModel(r1, fs) :
           r1 \in {PlainInitSession(r0, fs) :
            r0 \in {PlainApplyEvent(st, ev, fs) :
             st \in {RunStart(s, ev)}}}}}}}}}

(***************************************************************************)
(* Initial state: no chats.db file yet, no process resources, no session   *)
(* has run.                                                                *)
(***************************************************************************)
NoRet == [op |-> None, raised |-> FALSE, value |-> None]

\* no save_chat call in progress
NoConn == [pc |-> "idle", args |-> None, view |-> None, waited |-> FALSE,
           done |-> 0]

Init ==
    /\ db = EmptyDb
    /\ ret = NoRet
    /\ saved = <<>>
    /\ issued = <<>>
    /\ session_state = [s \in Sessions |-> NewSession]
    /\ index = <<>>
    /\ cache_resource = {}
    /\ startup = "pending"
    /\ trace = [s \in Sessions |-> NoTrace]
    /\ conn = [s \in Sessions |-> NoConn]

appVars == <<session_state, index, cache_resource, startup, trace, conn>>

(***************************************************************************)
(* SpecStore: direct calls of the chats_db functions, in any order, each   *)
(* with or without a storage fault.                                        *)
(***************************************************************************)
\* message sequences given to save_chat by a direct call
StoreMessages ==
    {<<>>,
     <<Message("user", PROMPT), Message("assistant", CHAT_REPLY)>>,
     <<Message("system", FileText("D1")), Message("user", PROMPT),
       Message("assistant", SORRY)>>}

Faults(points) == SUBSET points

\* the history drops the chat a delete_chat call that returned was given
Forget(h, chat_id) == [i \in DOMAIN h \ {chat_id} |-> h[i]]

CallCreateDatabase ==
    \E fs \in Faults({"create_chats", "create_settings", "seed_default"}) :
        LET res == create_database(db, fs)
        IN  /\ db' = res.db
            /\ ret' = [op |-> "create_database", raised |-> res.raised,
                       value |-> None]
            /\ UNCHANGED <<saved, issued, appVars>>

CallSaveChat ==
    \E chat_name \in ChatNames, messages \in StoreMessages, model \in Models,
       fs \in Faults({"save_chat"}) :
        LET res == save_chat(db, chat_name, messages, model, fs)
        IN  /\ db.seq < MaxId
            /\ db' = res.db
            /\ ret' = [op |-> "save_chat", raised |-> res.raised,
                       value |-> None]
            /\ saved' = IF res.raised THEN saved
                        ELSE (res.db.seq :> [chat_name |-> chat_name,
                                             messages |-> messages,
                                             model |-> model]) @@ saved
            /\ issued' = IF res.raised THEN issued
                         ELSE Append(issued, res.db.seq)
            /\ UNCHANGED appVars

CallLoadChats ==
    \E fs \in Faults({"load_chats"}) :
        LET res == load_chats(db, fs)
        IN  /\ ret' = [op |-> "load_chats", raised |-> res.raised,
                       value |-> res.value]
            /\ UNCHANGED <<db, saved, issued, appVars>>

CallLoadChatMessages ==
    \E chat_id \in 1..MaxId, fs \in Faults({"load_chat_messages"}) :
        LET res == load_chat_messages(db, chat_id, fs)
        IN  /\ ret' = [op |-> "load_chat_messages", raised |-> res.raised,
                       value |-> <<chat_id, res.value>>]
            /\ UNCHANGED <<db, saved, issued, appVars>>

CallDeleteChat ==
    \E chat_id \in 1..MaxId, fs \in Faults({"delete_chat"}) :
        LET res == delete_chat(db, chat_id, fs)
        IN  /\ db' = res.db
            /\ ret' = [op |-> "delete_chat", raised |-> res.raised,
                       value |-> [chat_id |-> chat_id,
                                  existed |-> chat_id \in DOMAIN db.chats,
                                  faulted |-> fs # {}]]
            /\ saved' = IF res.raised THEN saved ELSE Forget(saved, chat_id)
            /\ UNCHANGED <<issued, appVars>>

CallGetDefaultModel ==
    \E fs \in Faults({"get_default_model"}) :
        LET res == get_default_model(db, fs)
        IN  /\ ret' = [op |-> "get_default_model", raised |-> res.raised,
                       value |-> <<res.value, fs # {}>>]
            /\ UNCHANGED <<db, saved, issued, appVars>>

CallSetDefaultModel ==
    \E model \in Models, fs \in Faults({"set_default_model"}) :
        LET res == set_default_model(db, model, fs)
        IN  /\ db' = res.db
            /\ ret' = [op |-> "set_default_model", raised |-> res.raised,
                       value |-> model]
            /\ UNCHANGED <<saved, issued, appVars>>

NextStore ==
    \/ CallCreateDatabase
    \/ CallSaveChat
    \/ CallLoadChats
    \/ CallLoadChatMessages
    \/ CallDeleteChat
    \/ CallGetDefaultModel
    \/ CallSetDefaultModel

SpecStore == Init /\ [][NextStore]_vars

(***************************************************************************)
(* SpecConc: save_chat running in the threads of two sessions at once, and *)
(* load_chats between its steps.  A save_chat call is the steps of lines   *)
(* 58-62: connect; execute the INSERT, which opens the transaction and     *)
(* takes the database's write lock; commit.  sqlite3 makes a second writer *)
(* wait for the lock and raises "database is locked" when it waits too     *)
(* long; readers see committed rows only.                                  *)
(***************************************************************************)
\* a store without sqlite3's write lock
NoWriteLock(t) == TRUE

\* no other connection is inside a write transaction
WriteLockFree(t) == \A u \in Sessions \ {t} : conn[u].pc # "inserted"

Calling == {u \in Sessions : conn[u].pc # "idle"}

\* the arguments of the concurrent calls: Scenario A's chat and an empty one
ConcArgs ==
    {[chat_name |-> "Trip Planning",
      messages |-> <<Message("user", PROMPT), Message("assistant", CHAT_REPLY)>>,
      model |-> "llama3.1"],
     [chat_name |-> "Notes", messages |-> <<>>, model |-> "gemma2"]}

\* line 58: the call starts and connects
SaveCall(t) ==
    \E args \in ConcArgs :
        /\ conn[t].pc = "idle"
        /\ db.seq + Cardinality(Calling) < MaxId
        /\ conn' = [conn EXCEPT ![t].pc = "connected",
                                ![t].waited = FALSE,
                                ![t].args = args]
        /\ UNCHANGED <<db, ret, saved, issued, session_state, index, cache_resource,
                       startup, trace>>

\* lines 60-61 while another connection holds the write lock: wait
SaveWait(t) ==
    /\ conn[t].pc = "connected"
    /\ ~WriteLockFree(t)
    /\ ~conn[t].waited
    /\ conn' = [conn EXCEPT ![t].waited = TRUE]
    /\ UNCHANGED <<db, ret, saved, issued, session_state, index, cache_resource,
                   startup, trace>>

\* the wait timed out: sqlite3.OperationalError, logged and re-raised
SaveBusy(t) ==
    /\ conn[t].pc = "connected"
    /\ ~WriteLockFree(t)
    /\ conn[t].waited
    /\ conn' = [conn EXCEPT ![t].pc = "idle", ![t].args = None]
    /\ ret' = [op |-> "save_chat", raised |-> TRUE, value |-> t]
    /\ UNCHANGED <<db, saved, issued, session_state, index, cache_resource,
                   startup, trace>>

\* lines 60-61: the INSERT runs inside the connection's transaction
SaveExecute(t) ==
    \E fs \in Faults({"save_chat"}) :
        LET a == conn[t].args
            res == save_chat(db, a.chat_name, a.messages, a.model, fs)
        IN  /\ conn[t].pc = "connected"
            /\ WriteLockFree(t)
            /\ IF res.raised
               THEN /\ conn' = [conn EXCEPT ![t].pc = "idle",
                                            ![t].args = None]
                    /\ ret' = [op |-> "save_chat", raised |-> TRUE,
                               value |-> t]
               ELSE /\ conn' = [conn EXCEPT ![t].pc = "inserted",
                                            ![t].view = res.db]
                    /\ UNCHANGED ret
            /\ UNCHANGED <<db, saved, issued, session_state, index, cache_resource,
                           startup, trace>>

\* line 62: commit, or an exception that rolls the transaction back when
\* the with block is left
SaveCommit(t) ==
    \E fs \in Faults({"save_chat"}) :
        /\ conn[t].pc = "inserted"
        /\ IF fs # {}
           THEN /\ conn' = [conn EXCEPT ![t].pc = "idle", ![t].args = None,
                                        ![t].view = None]
                /\ ret' = [op |-> "save_chat", raised |-> TRUE, value |-> t]
                /\ UNCHANGED <<db, saved, issued>>
           ELSE /\ db' = conn[t].view
                /\ saved' = (conn[t].view.seq :> conn[t].args) @@ saved
                /\ issued' = Append(issued, conn[t].view.seq)
                /\ conn' = [conn EXCEPT ![t].pc = "idle", ![t].args = None,
                                        ![t].view = None,
                                        ![t].done = @ + 1]
                /\ ret' = [op |-> "save_chat", raised |-> FALSE, value |-> t]
        /\ UNCHANGED <<session_state, index, cache_resource, startup, trace>>

NextConc ==
    \/ CallCreateDatabase
    \/ CallLoadChats
    \/ \E t \in Sessions :
          \/ SaveCall(t)
          \/ SaveWait(t)
          \/ SaveBusy(t)
          \/ SaveExecute(t)
          \/ SaveCommit(t)

SpecConc == Init /\ [][NextConc]_vars

(***************************************************************************)
(* Spec: the RAG app.  One action is one script run of one session,        *)
(* started by one UI event on a widget the session's last run rendered.    *)
(***************************************************************************)
\* the calls of this run that may raise
RelevantFaults(s, ev) ==
    LET ss == session_state[s]
    IN  {"get_default_model", "set_default_model"}
        \cup (IF "initialize_database" \in cache_resource THEN {}
              ELSE {"create_chats", "create_settings", "seed_default"})
        \cup (IF "initialize_llamaindex" \in cache_resource THEN {}
              ELSE {"embed"})
        \cup (IF "saved_chats" \notin ss.keys \/ ev.kind \in {"save", "delete"}
              THEN {"load_chats"} ELSE {})
        \cup (IF ev.kind = "save" THEN {"save_chat"} ELSE {})
        \cup (IF ev.kind = "load" THEN {"load_chat_messages"} ELSE {})
        \cup (IF ev.kind = "delete" THEN {"delete_chat"} ELSE {})
        \cup (IF ev.kind = "upload"
                 \/ (ss.uploaded_file # None /\ ev.kind # "remove_file")
              THEN {"insert"} ELSE {})
        \cup (IF ev.kind = "prompt" THEN {"chat", "query"} ELSE {})

Finish(r) ==
    [r.tr EXCEPT !.status = IF Running(r) THEN "ok" ELSE r.status,
                 !.selected_model = r.selected_model]

\* the outcome r of a script run of session s becomes the next state
Commit(s, r) ==
    /\ Len(r.index) <= MaxDocs
    /\ Len(r.ss.messages) <= MaxMsgs
    /\ session_state' = [session_state EXCEPT ![s] = r.ss]
    /\ db' = r.db
    /\ saved' = r.saved
    /\ issued' = r.issued
    /\ index' = r.index
    /\ cache_resource' = r.cache
    /\ startup' = r.startup
    /\ trace' = [trace EXCEPT ![s] = Finish(r)]
    /\ ret' = [op |-> "main", raised |-> r.status = "exception", value |-> s]
    /\ UNCHANGED conn

\* F is the set of fault points the specification lets fail
RagRun(s, ev, F) ==
    \E fs \in Faults(RelevantFaults(s, ev) \cap F) :
        \E r \in rag_main(s, ev, fs) : Commit(s, r)

\* page load, or a rerun without a widget event
Rerun(s, F) == RagRun(s, Event("rerun", None), F)

ModelChange(s, F) ==
    \E n \in DisplayNames :
        /\ session_state[s].reach >= ReachSelectbox
        /\ n # session_state[s].selectbox.value
        /\ RagRun(s, Event("select_model", n), F)

NewChat(s, F) ==
    /\ session_state[s].reach >= ReachUploader
    /\ RagRun(s, Event("new_chat", None), F)

\* the form is submitted with a name, or with the name field left empty
SaveUpTo(s, n, F) ==
    \E chat_name \in {"Trip Planning", ""} :
        /\ session_state[s].reach >= ReachUploader
        /\ db.seq < n
        /\ RagRun(s, Event("save", chat_name), F)

Save(s, F) == SaveUpTo(s, MaxId, F)

Load(s, F) ==
    \E chat_id \in SavedIds(session_state[s]) :
        /\ session_state[s].reach >= ReachUploader
        /\ RagRun(s, Event("load", chat_id), F)

Delete(s, F) ==
    \E chat_id \in SavedIds(session_state[s]) :
        /\ session_state[s].reach >= ReachUploader
        /\ RagRun(s, Event("delete", chat_id), F)

\* a file is put into the uploader, empty or not
AttachOf(s, files, F) ==
    \E file \in files :
        /\ session_state[s].reach >= ReachUploader
        /\ file # session_state[s].uploaded_file
        /\ RagRun(s, Event("upload", file), F)

Attach(s, F) == AttachOf(s, Files, F)

Detach(s, F) ==
    /\ session_state[s].reach >= ReachUploader
    /\ session_state[s].uploaded_file # None
    /\ RagRun(s, Event("remove_file", None), F)

UserMessage(s, F) ==
    /\ session_state[s].reach >= ReachChatInput
    /\ RagRun(s, Event("prompt", PROMPT), F)

\* a turn whose two messages fit into n
UserMessageUpTo(s, n, F) ==
    /\ Len(session_state[s].messages) + 2 <= n
    /\ UserMessage(s, F)

\* Spec: one session of the RAG app; page loads, uploads, removals, new
\* chats and turns.  Startup, the embedding model, the index and both
\* backends may fail.
SpecFaults ==
    {"create_chats", "create_settings", "seed_default", "embed",
     "load_chats", "insert", "chat", "query"}

Next ==
    \E s \in {1} :
        \/ Rerun(s, SpecFaults)
        \/ NewChat(s, SpecFaults)
        \/ Attach(s, SpecFaults)
        \/ Detach(s, SpecFaults)
        \/ UserMessage(s, SpecFaults)

Spec == Init /\ [][Next]_vars

\* SpecChats: one session of the RAG app; saving, loading and deleting
\* chats, model changes and turns.  The store calls on the chats table may
\* fail.
ChatsFaults ==
    {"load_chats", "save_chat", "load_chat_messages", "delete_chat"}

NextChats ==
    \E s \in {1} :
        \/ Rerun(s, ChatsFaults)
        \/ ModelChange(s, ChatsFaults)
        \/ Save(s, ChatsFaults)
        \/ Load(s, ChatsFaults)
        \/ Delete(s, ChatsFaults)
        \/ UserMessage(s, ChatsFaults)

SpecChats == Init /\ [][NextChats]_vars

\* SpecTwo: two sessions of the RAG app in one process; page loads and
\* model changes.  Startup and the settings reads and writes may fail.
TwoFaults ==
    {"create_chats", "create_settings", "seed_default",
     "get_default_model", "set_default_model"}

NextTwo ==
    \E s \in Sessions :
        \/ Rerun(s, TwoFaults)
        \/ ModelChange(s, TwoFaults)

SpecTwo == Init /\ [][NextTwo]_vars

\* SpecEvents: one session of the RAG app, every UI event, no faults; the
\* uploads are the two documents with text, the conversation is short.
NextEvents ==
    \E s \in {1} :
        \/ Rerun(s, {})
        \/ ModelChange(s, {})
        \/ NewChat(s, {})
        \/ SaveUpTo(s, MaxSaves, {})
        \/ Load(s, {})
        \/ Delete(s, {})
        \/ AttachOf(s, {"D1", "D2"}, {})
        \/ Detach(s, {})
        \/ UserMessageUpTo(s, MaxEventMsgs, {})

SpecEvents == Init /\ [][NextEvents]_vars

\* SpecShared: two sessions of the RAG app in one process, each with a
\* document of its own; page loads, uploads, removals, new chats and
\* turns, no faults.
OwnFile(s) == IF s = 1 THEN "D1" ELSE "D2"

NextShared ==
    \E s \in Sessions :
        \/ Rerun(s, {})
        \/ NewChat(s, {})
        \/ AttachOf(s, {OwnFile(s)}, {})
        \/ Detach(s, {})
        \/ UserMessageUpTo(s, MaxEventMsgs, {})

SpecShared == Init /\ [][NextShared]_vars

\* SpecLoad: one session of the RAG app; page loads, uploads of a document,
\* removals, saves, loads and turns.  The insertion into the index may fail.
LoadFaults == {"insert"}

NextLoad ==
    \E s \in {1} :
        \/ Rerun(s, LoadFaults)
        \/ SaveUpTo(s, MaxSaves, LoadFaults)
        \/ Load(s, LoadFaults)
        \/ AttachOf(s, {"D1"}, LoadFaults)
        \/ Detach(s, LoadFaults)
        \/ UserMessage(s, LoadFaults)

SpecLoad == Init /\ [][NextLoad]_vars

\* SpecStale: two sessions of the RAG app in one process; page loads,
\* saves, loads, deletes, uploads of a document and short conversations.
\* The insertion into the index may fail.
NextStale ==
    \E s \in Sessions :
        \/ Rerun(s, LoadFaults)
        \/ SaveUpTo(s, MaxSaves, LoadFaults)
        \/ Load(s, LoadFaults)
        \/ Delete(s, LoadFaults)
        \/ AttachOf(s, {"D1"}, LoadFaults)
        \/ UserMessageUpTo(s, MaxEventMsgs, LoadFaults)

SpecStale == Init /\ [][NextStale]_vars

\* SpecCorrupt: one session of the RAG app; page loads, model changes, new
\* chats, saves, loads and turns, no faults.  chats.db is a file: between
\* two runs something outside the app may damage the messages text of a
\* stored row, here by cutting it short.
Damaged(chat_id) ==
    db.chats[chat_id].messages # json_dumps(saved[chat_id].messages)

CorruptRecord ==
    \E chat_id \in DOMAIN db.chats :
        \E k \in 0..(Len(db.chats[chat_id].messages) - 1) :
            /\ ~Damaged(chat_id)
            /\ db' = [db EXCEPT !.chats[chat_id].messages = SubSeq(@, 1, k)]
            /\ ret' = [op |-> "corrupt", raised |-> FALSE, value |-> chat_id]
            /\ UNCHANGED <<saved, issued, appVars>>

NextCorrupt ==
    \/ CorruptRecord
    \/ \E s \in {1} :
          \/ Rerun(s, {})
          \/ ModelChange(s, {})
          \/ NewChat(s, {})
          \/ SaveUpTo(s, MaxSaves, {})
          \/ Load(s, {})
          \/ UserMessageUpTo(s, MaxEventMsgs, {})

SpecCorrupt == Init /\ [][NextCorrupt]_vars

(***************************************************************************)
(* SpecPlain: the plain app, one session; page loads, model changes,       *)
(* uploads, removals, new chats and turns.  Startup and the chat backend   *)
(* may fail.                                                               *)
(***************************************************************************)
PlainFaults == {"create_chats", "create_settings", "seed_default", "chat"}

PlainRun(s, ev) ==
    \E fs \in Faults(RelevantFaults(s, ev) \cap PlainFaults) :
        \E r \in plain_main(s, ev, fs) : Commit(s, r)

PlainRerun(s) == PlainRun(s, Event("rerun", None))

PlainModelChange(s) ==
    \E n \in DisplayNames :
        /\ session_state[s].reach >= ReachSelectbox
        /\ n # session_state[s].selectbox.value
        /\ PlainRun(s, Event("select_model", n))

PlainNewChatClick(s) ==
    /\ session_state[s].reach >= ReachUploader
    /\ PlainRun(s, Event("new_chat", None))

PlainAttach(s) ==
    \E file \in {"D1", "Blank"} :
        /\ session_state[s].reach >= ReachUploader
        /\ file # session_state[s].uploaded_file
        /\ PlainRun(s, Event("upload", file))

PlainDetach(s) ==
    /\ session_state[s].reach >= ReachUploader
    /\ session_state[s].uploaded_file # None
    /\ PlainRun(s, Event("remove_file", None))

PlainUserMessage(s) ==
    /\ session_state[s].reach >= ReachChatInput
    /\ PlainRun(s, Event("prompt", PROMPT))

NextPlain ==
    \E s \in {1} :
        \/ PlainRerun(s)
        \/ PlainModelChange(s)
        \/ PlainNewChatClick(s)
        \/ PlainAttach(s)
        \/ PlainDetach(s)
        \/ PlainUserMessage(s)

SpecPlain == Init /\ [][NextPlain]_vars

(***************************************************************************)
(* Claims                                                                  *)
(***************************************************************************)
\* the last step was a script run of session s
JustRan(s) == ret.op = "main" /\ ret.value = s

\* ... and that run reached the end of main()
Completed(s) == JustRan(s) /\ trace[s].status = "ok"

LastMessage(s) == session_state[s].messages[Len(session_state[s].messages)]

\* C1: round trip.  In every state reached by any sequence of store calls,
\* load_chat_messages on the id of a chat that was saved (and not deleted
\* since) returns (True, M, X) for the messages M, in order, and the model X
\* it was saved with.
C1_RoundTrip ==
    \A id \in DOMAIN saved :
        load_chat_messages(db, id, {}).value
            = <<TRUE, saved[id].messages, saved[id].model>>

\* a chat with three messages was saved, another chat was saved after it and
\* deleted again, and the call that just returned loaded the first one
C1_Witness ==
    /\ ret.op = "load_chat_messages"
    /\ ~ret.raised
    /\ ret.value[1] \in DOMAIN saved
    /\ Len(saved[ret.value[1]].messages) = 3
    /\ ret.value[2] = <<TRUE, saved[ret.value[1]].messages,
                        saved[ret.value[1]].model>>
    /\ db.seq > ret.value[1]
    /\ db.seq \notin DOMAIN db.chats

\* C2: mode exclusivity.  After every completed script run of the RAG app,
\* use_rag is true if and only if the index holds exactly one document.
C2_ModeExclusivity ==
    \A s \in Sessions :
        Completed(s) => (session_state[s].use_rag <=> Len(index) = 1)

\* C3: new chat.  When the script run of a "New Chat" click has completed,
\* the message sequence is empty, use_rag is false and the index holds no
\* document.
C3_NewChatResets ==
    \A s \in Sessions :
        (Completed(s) /\ trace[s].event = "new_chat")
            => /\ session_state[s].messages = <<>>
               /\ ~session_state[s].use_rag
               /\ index = <<>>

\* C4: detach (Scenario C).  After the run in which the attached document
\* is removed, use_rag is false and the index a later upload inserts into is
\* empty: when the next run uploads a document and inserts it, the index
\* holds that document and nothing else.
C4_DetachDiscardsIndex ==
    [][\A s \in Sessions :
        (Completed(s) /\ trace[s].event = "remove_file")
            => /\ ~session_state[s].use_rag
               /\ (/\ Completed(s)'
                   /\ trace'[s].event = "upload"
                   /\ "success_rag_enabled" \in trace'[s].notes)
                  => index' = <<FileText(session_state'[s].uploaded_file)>>
      ]_vars

\* C5: turn atomicity under failure on the plain path.  A script run that
\* sends the user's message to the chat backend, with the backend call
\* failing, ends without an unhandled exception; the message sequence is the
\* one before the run plus exactly two entries, the user's message and then
\* the assistant message "I'm sorry, I couldn't process your request."
C5_TurnAtomicity ==
    [][\A s \in Sessions :
        (JustRan(s)' /\ trace'[s].backend = "chat" /\ trace'[s].backend_failed)
            => /\ trace'[s].status = "ok"
               /\ session_state'[s].messages
                    = session_state[s].messages
                        \o <<Message("user", PROMPT),
                             Message("assistant", SORRY)>>
      ]_vars

\* C6: failure containment on the retrieval path.  When the index query of a
\* turn fails, the run ends without an unhandled exception and the message
\* sequence ends with the user's message followed by the assistant message
\* "I'm sorry, I couldn't process your request."
C6_QueryFaultContained ==
    \A s \in Sessions :
        (JustRan(s) /\ trace[s].backend = "query" /\ trace[s].backend_failed)
            => /\ trace[s].status = "ok"
               /\ Len(session_state[s].messages) >= 2
               /\ LastMessage(s) = Message("assistant", SORRY)
               /\ session_state[s].messages[Len(session_state[s].messages) - 1]
                      = Message("user", PROMPT)

\* C7: a fault of create_database at application start is fatal: startup
\* is aborted, so no session event is processed in a process whose
\* create_database raised.
C7_StartupFaultIsFatal ==
    startup = "failed" =>
        \A s \in Sessions :
            ~(trace[s].status = "ok" /\ trace[s].event \notin {None, "rerun"})

\* C8: load sets the active model.  After the run of a "load" click that
\* found the record, with model X, the next turn of the session that goes
\* to the chat backend is sent with model X.
C8_LoadSetsActiveModel ==
    [][\A s \in Sessions :
        (/\ Completed(s)
         /\ trace[s].event = "load"
         /\ trace[s].loaded # None
         /\ JustRan(s)'
         /\ trace'[s].backend = "chat")
            => trace'[s].sent_model = trace[s].loaded
      ]_vars

\* session s has just completed a run that wrote a new default model over
\* the stored one
ChangedBy(s) ==
    /\ JustRan(s)
    /\ trace[s].changed_to # None
    /\ HasDefaultRow(db)

\* C9: model change (Scenario D).  When a run has changed the model to a
\* value different from the stored default, the stored default is the new
\* value, and a fresh session that loads the page next reads the new value
\* as its default and selects it (a read that fails with sqlite3.Error gives
\* the fallback, C10).
C9_ModelChangePersisted ==
    [][\A s \in Sessions :
        ChangedBy(s)
            => /\ db.settings["default_model"] = trace[s].changed_to
               /\ \A t \in Sessions \ {s} :
                    (/\ session_state[t].keys = {}
                     /\ JustRan(t)'
                     /\ "log_error_get_default_model" \notin trace'[t].notes)
                        => /\ trace'[t].default_model = trace[s].changed_to
                           /\ trace'[t].selected_model = trace[s].changed_to
      ]_vars

\* session 1 changed the model from "llama3.1" to "gemma2", and session 2
\* then loaded the page and got "Gemma 2" selected without writing anything
C9_Witness ==
    /\ trace[1].event = "select_model"
    /\ trace[1].default_model = "llama3.1"
    /\ trace[1].changed_to = "gemma2"
    /\ JustRan(2)
    /\ trace[2].event = "rerun"
    /\ trace[2].default_model = "gemma2"
    /\ trace[2].changed_to = None
    /\ session_state[2].selectbox = [index |-> "Gemma 2", value |-> "Gemma 2"]

\* C11: save appends and never overwrites.  Every save_chat call that
\* returns adds exactly one record, under an id no stored record has, holding
\* the name, messages and model of the call, and leaves every record that
\* was stored unchanged, a record with the same name included.
C11_SaveAppends ==
    [][(ret'.op = "save_chat" /\ ~ret'.raised)
        => \E id \in (DOMAIN db'.chats) \ (DOMAIN db.chats) :
            /\ DOMAIN db'.chats = DOMAIN db.chats \cup {id}
            /\ \A i \in DOMAIN db.chats : db'.chats[i] = db.chats[i]
            /\ db'.chats[id].chat_name = saved'[id].chat_name
            /\ db'.chats[id].model = saved'[id].model
            /\ db'.chats[id].messages = json_dumps(saved'[id].messages)
      ]_vars

\* the save that just returned used the name of a chat that was already
\* stored, with other messages; both records are in the store
C11_Witness ==
    /\ ret.op = "save_chat"
    /\ ~ret.raised
    /\ DOMAIN db.chats = {1, 2}
    /\ db.chats[1].chat_name = db.chats[2].chat_name
    /\ db.chats[1].messages # db.chats[2].messages
    /\ saved[1].messages # saved[2].messages

\* C12: deletion idempotence.  With the chats table present and no storage
\* fault, delete_chat(id) does not raise whether or not a record has the id
\* (the first and the repeated deletion); afterwards no record has the id,
\* load_chat_messages(id) returns (False, None, None), and every record
\* with another id is unchanged.
C12_DeleteIdempotent ==
    [][/\ (ret'.op = "delete_chat" /\ ~ret'.value.faulted
             /\ "chats" \in db.tables)
          => /\ ~ret'.raised
             /\ DOMAIN db'.chats = DOMAIN db.chats \ {ret'.value.chat_id}
             /\ \A i \in DOMAIN db'.chats : db'.chats[i] = db.chats[i]
             /\ ~load_chat_messages(db', ret'.value.chat_id, {}).raised
             /\ load_chat_messages(db', ret'.value.chat_id, {}).value
                    = <<FALSE, None, None>>
       /\ (ret'.op = "load_chat_messages" /\ ~ret'.raised
             /\ ret'.value[1] \notin DOMAIN db'.chats)
          => ret'.value[2] = <<FALSE, None, None>>
      ]_vars

\* the call that just returned deleted an id a second time: the id had been
\* given to a record, no record had it any more, and another record is stored
C12_Witness ==
    /\ ret.op = "delete_chat"
    /\ ~ret.raised
    /\ ~ret.value.existed
    /\ ret.value.chat_id <= db.seq
    /\ DOMAIN db.chats # {}
    /\ DOMAIN saved = DOMAIN db.chats

\* C13: empty extraction (Scenario B).  When a document whose extracted
\* text is empty is attached while use_rag is false, the run completes,
\* nothing is inserted into the index, use_rag stays false and the warning is
\* shown; the turn that follows goes to the chat backend, not to an index
\* query, and still inserts nothing.
C13_EmptyExtraction ==
    [][\A s \in Sessions :
        /\ (/\ JustRan(s)'
            /\ trace'[s].event = "upload"
            /\ session_state'[s].uploaded_file = "Blank"
            /\ ~session_state[s].use_rag)
           => /\ trace'[s].status = "ok"
              /\ index' = index
              /\ ~session_state'[s].use_rag
              /\ "warning_empty" \in trace'[s].notes
        /\ (/\ Completed(s)
            /\ trace[s].event = "upload"
            /\ session_state[s].uploaded_file = "Blank"
            /\ ~session_state[s].use_rag
            /\ JustRan(s)'
            /\ trace'[s].event = "prompt")
           => /\ trace'[s].backend = "chat"
              /\ index' = index
              /\ ~session_state'[s].use_rag
      ]_vars

\* a turn went to the chat backend with the textless document attached
\* and the index still empty
C13_Witness ==
    /\ JustRan(1)
    /\ trace[1].event = "prompt"
    /\ trace[1].backend = "chat"
    /\ "warning_empty" \in trace[1].notes
    /\ session_state[1].uploaded_file = "Blank"
    /\ ~session_state[1].use_rag
    /\ index = <<>>

\* C14: list() reflects the store.  After any sequence of store calls,
\* a load_chats call that returns gives exactly one (id, name, model) entry
\* for each chat that was saved and not deleted since, with the name and
\* model of its save_chat call, and nothing else.
C14_ListReflectsStore ==
    (ret.op = "load_chats" /\ ~ret.raised)
        => /\ Len(ret.value) = Cardinality(DOMAIN saved)
           /\ {ret.value[i] : i \in DOMAIN ret.value}
                = {<<id, saved[id].chat_name, saved[id].model>> :
                       id \in DOMAIN saved}

\* Scenario A: "Trip Planning" was saved with the two messages and
\* "llama3.1", a later chat was saved and deleted, and the list that just
\* returned has the one entry (1, "Trip Planning", "llama3.1")
C14_Witness ==
    /\ ret.op = "load_chats"
    /\ ~ret.raised
    /\ ret.value = <<<<1, "Trip Planning", "llama3.1">>>>
    /\ saved[1].messages = <<Message("user", PROMPT),
                             Message("assistant", CHAT_REPLY)>>
    /\ db.seq = 2

\* C15: store atomicity under concurrent sessions.  With save_chat calls of
\* two sessions overlapping, every call that returned without raising has
\* its record in the store under an id of its own, every stored record has
\* the name, messages and model of one call, and a load_chats that returns
\* while a save is in progress lists exactly the committed records, each
\* with the name and model of its call.
C15_StoreAtomicity ==
    /\ Cardinality(DOMAIN db.chats) = conn[1].done + conn[2].done
    /\ DOMAIN db.chats = DOMAIN saved
    /\ \A id \in DOMAIN db.chats :
          db.chats[id] = [chat_name |-> saved[id].chat_name,
                          messages |-> json_dumps(saved[id].messages),
                          model |-> saved[id].model]
    /\ (ret.op = "load_chats" /\ ~ret.raised)
          => /\ Len(ret.value) = Cardinality(DOMAIN saved)
             /\ \A i \in DOMAIN ret.value :
                   /\ ret.value[i][1] \in DOMAIN saved
                   /\ ret.value[i][2] = saved[ret.value[i][1]].chat_name
                   /\ ret.value[i][3] = saved[ret.value[i][1]].model

\* session 2's save waited for session 1's commit and has its INSERT
\* pending, and the load_chats that just returned lists session 1's record
\* only
C15_Witness ==
    /\ conn[1].done = 1
    /\ conn[2].pc = "inserted"
    /\ conn[2].waited
    /\ ret.op = "load_chats"
    /\ ~ret.raised
    /\ Len(ret.value) = 1
    /\ ret.value[1][2] # conn[2].args.chat_name

\* C16: session isolation of the retrieval index.  With two sessions in one
\* app process, the index a session's turn queries holds no document that
\* the other session inserted, and a new chat or a detach of one session
\* leaves the other session's documents in the index as they were.
C16_IndexIsolation ==
    [][\A a \in Sessions : \A b \in Sessions \ {a} :
        /\ (JustRan(b)' /\ trace'[b].backend = "query")
           => \A i \in DOMAIN index' : index'[i] # FileText(OwnFile(a))
        /\ (JustRan(a)' /\ trace'[a].event \in {"new_chat", "remove_file"})
           => SelectSeq(index', LAMBDA d : d = FileText(OwnFile(b)))
                = SelectSeq(index, LAMBDA d : d = FileText(OwnFile(b)))
      ]_vars

\* C17: turn dispatch by mode.  Every run of a user-message event that
\* reaches the chat input calls exactly one backend, chosen by use_rag at
\* that point: with use_rag the index is queried with the text of the new
\* message only; without it the chat backend gets the whole message
\* sequence, the new user message included, and the run's selected model.
\* The user message is appended before the call and the assistant message
\* after the call has returned.
C17_TurnDispatch ==
    [][\A s \in Sessions :
        (/\ JustRan(s)'
         /\ trace'[s].event = "prompt"
         /\ session_state'[s].reach = ReachChatInput)
           => LET before == session_state[s].messages
                  after == session_state'[s].messages
                  user == Message("user", PROMPT)
              IN  IF session_state'[s].use_rag
                  THEN /\ trace'[s].backend = "query"
                       /\ trace'[s].sent = PROMPT
                       /\ after = IF trace'[s].backend_failed
                                  THEN before \o <<user>>
                                  ELSE before \o <<user,
                                        Message("assistant", INDEX_ANSWER)>>
                  ELSE /\ trace'[s].backend = "chat"
                       /\ trace'[s].sent = before \o <<user>>
                       /\ trace'[s].sent_model = trace'[s].selected_model
                       /\ after = before \o <<user,
                                    Message("assistant",
                                        IF trace'[s].backend_failed
                                        THEN SORRY ELSE CHAT_REPLY)>>
      ]_vars

\* the first turn of the session was answered by the chat backend, the
\* second, after a document was attached, by a query of the index
C17_Witness ==
    /\ JustRan(1)
    /\ trace[1].event = "prompt"
    /\ trace[1].backend = "query"
    /\ trace[1].sent = PROMPT
    /\ session_state[1].use_rag
    /\ session_state[1].messages
         = <<Message("user", PROMPT), Message("assistant", CHAT_REPLY),
             Message("user", PROMPT), Message("assistant", INDEX_ANSWER)>>

\* C18: single insertion per attachment.  A run that starts with use_rag
\* true and handles a page rerun, a further upload, a model change, a save,
\* a load, a delete or a turn leaves the index unchanged.  A run changes the
\* index only by appending the text of the attached file, once, with
\* use_rag true afterwards; use_rag was false before that run, or the run
\* was a new chat, which sets it to false before the attach check.
C18_SingleInsertion ==
    [][\A s \in Sessions :
        JustRan(s)' =>
          /\ (/\ session_state[s].use_rag
              /\ trace'[s].event \in {"rerun", "upload", "select_model",
                                      "save", "load", "delete", "prompt"})
             => index' = index
          /\ index' # index
             => /\ index' = Append(index,
                              FileText(session_state'[s].uploaded_file))
                /\ session_state'[s].use_rag
                /\ "success_rag_enabled" \in trace'[s].notes
                /\ ~session_state[s].use_rag \/ trace'[s].event = "new_chat"
      ]_vars

\* Scenario C: D2 was uploaded over D1 while use_rag was true, and the
\* index holds D1 only
C18_Witness ==
    /\ JustRan(1)
    /\ trace[1].event = "upload"
    /\ trace[1].status = "ok"
    /\ session_state[1].uploaded_file = "D2"
    /\ session_state[1].use_rag
    /\ index = <<FileText("D1")>>

\* C19: extraction fault is contained.  When the extraction of an uploaded
\* file fails while use_rag is false, the run of the upload event completes
\* without an unhandled exception, use_rag stays false and the index is
\* unchanged.
C19_ExtractionFaultContained ==
    [][\A s \in Sessions :
        (/\ JustRan(s)'
         /\ trace'[s].event = "upload"
         /\ session_state'[s].uploaded_file = "Unreadable"
         /\ ~session_state[s].use_rag)
           => /\ trace'[s].status = "ok"
              /\ ~session_state'[s].use_rag
              /\ index' = index
      ]_vars

\* C20: non-startup storage faults are non-fatal.  The run of a save, load,
\* delete or model-change event never ends with an unhandled exception: a
\* storage fault of a store call it makes is caught and shown, and the
\* message sequence is as it was before the failed operation.
C20_StorageFaultsNonFatal ==
    [][\A s \in Sessions :
        (/\ JustRan(s)'
         /\ trace'[s].event \in {"save", "load", "delete", "select_model"})
           => /\ trace'[s].status = "ok"
              /\ (trace'[s].notes \cap {"error_saving", "error_loading",
                                        "error_deleting"} # {})
                 => session_state'[s].messages = session_state[s].messages
      ]_vars

\* a document with text is attached and not inserted: its insertion failed
PendingAttach(s) ==
    /\ ~session_state[s].use_rag
    /\ session_state[s].uploaded_file # None
    /\ FileText(session_state[s].uploaded_file) # ""

\* C21, with the case the statement leaves out: the run of a "load" click
\* on a stored record replaces the message sequence with exactly the
\* messages the record was saved with.  It leaves use_rag and the index as
\* they were, except when a document is attached whose insertion failed in
\* an earlier run: then the attach check of the load's run may insert that
\* document and set use_rag.  When use_rag was true before the load, the
\* turn that follows the load is answered by a query of the index.
C21_LoadKeepsRetrievalUnlessPending ==
    [][\A s \in Sessions :
        /\ (/\ JustRan(s)'
            /\ trace'[s].event = "load"
            /\ trace'[s].arg \in DOMAIN saved)
           => /\ session_state'[s].messages = saved[trace'[s].arg].messages
              /\ \/ /\ session_state'[s].use_rag = session_state[s].use_rag
                    /\ index' = index
                 \/ /\ PendingAttach(s)
                    /\ session_state'[s].use_rag
                    /\ index' = Append(index,
                          FileText(session_state[s].uploaded_file))
        /\ (/\ Completed(s)
            /\ trace[s].event = "load"
            /\ trace[s].loaded # None
            /\ session_state[s].use_rag
            /\ JustRan(s)'
            /\ trace'[s].event = "prompt")
           => /\ trace'[s].backend = "query"
              /\ session_state'[s].use_rag
      ]_vars

\* C21: load leaves retrieval state alone.  The run of a "load" click on a
\* stored record replaces the message sequence with exactly the messages the
\* record was saved with and leaves use_rag and the index as they were; when
\* use_rag was true before the load, the turn that follows the load is
\* answered by a query of the index.
C21_LoadKeepsRetrieval ==
    [][\A s \in Sessions :
        /\ (/\ JustRan(s)'
            /\ trace'[s].event = "load"
            /\ trace'[s].arg \in DOMAIN saved)
           => /\ session_state'[s].messages = saved[trace'[s].arg].messages
              /\ session_state'[s].use_rag = session_state[s].use_rag
              /\ index' = index
        /\ (/\ Completed(s)
            /\ trace[s].event = "load"
            /\ trace[s].loaded # None
            /\ session_state[s].use_rag
            /\ JustRan(s)'
            /\ trace'[s].event = "prompt")
           => /\ trace'[s].backend = "query"
              /\ session_state'[s].use_rag
      ]_vars

\* the two-message chat was saved before a document was attached, and the
\* load that just ran brought its messages back with use_rag still true and
\* the document still the only one in the index
C21_Witness ==
    /\ Completed(1)
    /\ trace[1].event = "load"
    /\ trace[1].arg \in DOMAIN saved
    /\ session_state[1].messages = saved[trace[1].arg].messages
    /\ Len(session_state[1].messages) = 2
    /\ session_state[1].use_rag
    /\ session_state[1].uploaded_file = "D1"
    /\ index = <<FileText("D1")>>

\* the run session s has just made was a load click on an id of its cached
\* list that no stored record had
StaleLoad(s) ==
    /\ JustRan(s)'
    /\ trace'[s].event = "load"
    /\ trace'[s].arg \in SavedIds(session_state[s])
    /\ trace'[s].arg \notin DOMAIN db.chats

\* the lookup found nothing and raised nothing; messages and model are as
\* they were
StaleLoadIgnored(s) ==
    /\ trace'[s].loaded = None
    /\ trace'[s].notes \cap {"error_loading", "toast_loaded"} = {}
    /\ session_state'[s].messages = session_state[s].messages
    /\ session_state'[s].saved_chats = session_state[s].saved_chats
    /\ trace'[s].selected_model
         = MODEL_MAPPING[session_state[s].selectbox.value]

C23_CacheRefreshed ==
    \A s \in Sessions :
        /\ (/\ JustRan(s)
            /\ trace[s].event = "save"
            /\ "toast_saved" \in trace[s].notes
            /\ "error_saving" \notin trace[s].notes)
           => /\ session_state[s].saved_chats = load_chats(db, {}).value
              /\ \E i \in DOMAIN session_state[s].saved_chats :
                    session_state[s].saved_chats[i]
                      = <<db.seq, trace[s].arg, trace[s].selected_model>>
        /\ (/\ JustRan(s)
            /\ trace[s].event = "delete"
            /\ "toast_deleted" \in trace[s].notes)
           => /\ session_state[s].saved_chats = load_chats(db, {}).value
              /\ trace[s].arg \notin SavedIds(session_state[s])

\* session 2 has just deleted the chat session 1 saved: its own list is
\* the store's, now empty, while session 1's list still has the entry
C23_Witness ==
    /\ JustRan(2)
    /\ trace[2].event = "delete"
    /\ "toast_deleted" \in trace[2].notes
    /\ trace[1].event = "save"
    /\ "toast_saved" \in trace[1].notes
    /\ session_state[1].saved_chats = <<<<1, "Trip Planning", "llama3.1">>>>
    /\ session_state[2].saved_chats = <<>>
    /\ load_chats(db, {}).value = <<>>

\* C24: create_database is idempotent and non-destructive.  A call in any
\* state of the store, returning or raising, leaves every chat record and
\* the id counter as they were and leaves a default_model row that is
\* present at its value; a call that returns leaves both tables and the
\* default_model row in place, and a second call right after it changes
\* nothing.
C24_InitializeIdempotent ==
    [][ret'.op = "create_database"
        => /\ db'.chats = db.chats
           /\ db'.seq = db.seq
           /\ db.tables \subseteq db'.tables
           /\ HasDefaultRow(db) => db'.settings = db.settings
           /\ ~ret'.raised
                => /\ db'.tables = {"chats", "settings"}
                   /\ HasDefaultRow(db')
                   /\ ~create_database(db', {}).raised
                   /\ create_database(db', {}).db = db'
      ]_vars

\* create_database has just returned on a store that holds a chat and
\* whose default model had been changed to "gemma2": both are still there
C24_Witness ==
    /\ ret.op = "create_database"
    /\ ~ret.raised
    /\ DOMAIN db.chats # {}
    /\ DOMAIN saved = DOMAIN db.chats
    /\ HasDefaultRow(db)
    /\ db.settings["default_model"] = "gemma2"

\* the system-role messages of a message sequence
SystemMessages(messages) ==
    SelectSeq(messages, LAMBDA m : m.role = "system")

\* C25: one system message per attachment in the plain app.  While a
\* document with text is attached, the message sequence holds exactly one
\* system message, whatever runs follow the upload; a run of a user turn
\* with the document attached makes the sequence longer by exactly two.
C25_OneSystemMessage ==
    [][\A s \in Sessions :
        (/\ JustRan(s)'
         /\ trace'[s].status = "ok"
         /\ session_state'[s].uploaded_file = "D1")
           => /\ Len(SystemMessages(session_state'[s].messages)) = 1
              /\ trace'[s].event = "prompt"
                 => Len(session_state'[s].messages)
                      = Len(session_state[s].messages) + 2
      ]_vars

\* C26: identifiers are never reused.  After any sequence of saves and
\* deletes, the ids given out by the saves are pairwise different, the
\* ids of deleted records included, and every stored record has an id that
\* was given out once: the id a stale list holds belongs to the chat it was
\* given to or to none.
C26_IdsNeverReused ==
    /\ \A i, j \in DOMAIN issued : i # j => issued[i] # issued[j]
    /\ DOMAIN db.chats \subseteq {issued[i] : i \in DOMAIN issued}
    /\ \A i \in DOMAIN issued :
          issued[i] \in DOMAIN db.chats
            => /\ issued[i] \in DOMAIN saved
               /\ db.chats[issued[i]].chat_name = saved[issued[i]].chat_name
               /\ db.chats[issued[i]].messages
                    = json_dumps(saved[issued[i]].messages)

\* the save that just returned came after the deletion of chat 1, the only
\* chat of the store then, and was given the id 2
C26_Witness ==
    /\ ret.op = "save_chat"
    /\ ~ret.raised
    /\ issued = <<1, 2>>
    /\ DOMAIN db.chats = {2}

\* C27: corrupted record on load.  When the messages text of a stored
\* record cannot be parsed, load_chat_messages on its id raises (the
\* JSONDecodeError of json.loads; it does not return found = False or a
\* part of the messages), and the run of the load click shows the error,
\* completes, and leaves the session's messages and selected model as they
\* were.
C27_CorruptedRecord ==
    [][\A s \in Sessions :
        (/\ JustRan(s)'
         /\ trace'[s].event = "load"
         /\ trace'[s].arg \in DOMAIN db.chats
         /\ Damaged(trace'[s].arg))
           => /\ load_chat_messages(db, trace'[s].arg, {}).raised
              /\ load_chat_messages(db, trace'[s].arg, {}).kind = "json"
              /\ trace'[s].status = "ok"
              /\ "error_loading" \in trace'[s].notes
              /\ "toast_loaded" \notin trace'[s].notes
              /\ trace'[s].loaded = None
              /\ session_state'[s].messages = session_state[s].messages
              /\ trace'[s].selected_model
                   = MODEL_MAPPING[session_state[s].selectbox.value]
      ]_vars

\* the chat was saved under "llama3.1" and its text was cut short
\* afterwards; the session, on "Gemma 2" and two messages into another
\* conversation, has just clicked on it and got the error
C27_Witness ==
    /\ Completed(1)
    /\ trace[1].event = "load"
    /\ trace[1].arg \in DOMAIN db.chats
    /\ Damaged(trace[1].arg)
    /\ ~json_loads(db.chats[trace[1].arg].messages).ok
    /\ db.chats[trace[1].arg].model = "llama3.1"
    /\ "error_loading" \in trace[1].notes
    /\ trace[1].selected_model = "gemma2"
    /\ Len(session_state[1].messages) = 2
    /\ saved[trace[1].arg].messages = <<>>

\* C10: get_default_model never raises; it returns "llama3.1" when the
\* default_model row is absent or the read fails with sqlite3.Error, and the
\* stored value otherwise.
C10_DefaultModelFallback ==
    ret.op = "get_default_model" =>
        /\ ~ret.raised
        /\ ret.value[1] =
              IF ret.value[2] \/ "settings" \notin db.tables
                 \/ ~HasDefaultRow(db)
              THEN "llama3.1"
              ELSE db.settings["default_model"]

\* the read failed while the stored default was "gemma2", and the call
\* returned the fallback
C10_Witness ==
    /\ ret.op = "get_default_model"
    /\ ret.value[2]
    /\ HasDefaultRow(db)
    /\ db.settings["default_model"] = "gemma2"
    /\ ret.value[1] = "llama3.1"

\* the settings table exists without a default_model row (create_database
\* failed at its INSERT), and the call returned the fallback
C10_RowAbsentReached ==
    /\ ret.op = "get_default_model"
    /\ ~ret.value[2]
    /\ "settings" \in db.tables
    /\ ~HasDefaultRow(db)
    /\ ret.value[1] = "llama3.1"

====
